---- MODULE Spec2Model ----
(***************************************************************************)
(* Hand-gesture controlled particle tree: the prediction loop of           *)
(* components/HandTracker.tsx (classifier, temporal stabilizer, grace      *)
(* period), the callback of App.tsx that stores the emitted GestureState,  *)
(* and the per-frame callbacks of components/ParticleSystem.tsx (shape     *)
(* mode, orientation, target positions).                                   *)
(*                                                                         *)
(* Numbers.  The program computes in IEEE doubles; the model computes in   *)
(* fixed point and rounds every product to the nearest unit:               *)
(*   landmark distances   tenths of the reference palm scale               *)
(*   wrist coordinate     units of 0.0005 (0.5 is WristCentre)             *)
(*   pointer              units of 0.003  (so DEADZONE is 1 unit)          *)
(*   pinch amount         units of 0.1    (so 1.0 is PinchOne)             *)
(*   angles               units of 0.0003 rad (a tenth of a pointer unit)  *)
(***************************************************************************)
EXTENDS Integers, Sequences, FiniteSets, TLC

VARIABLES
    fistFrames,          \* persistenceRef.current.fistFrames
    pinchFrames,         \* persistenceRef.current.pinchFrames
    openFrames,          \* persistenceRef.current.openFrames
    lastState,           \* persistenceRef.current.lastState
    smoothed,            \* smoothedRef.current
    missingHandFrames,   \* missingHandFramesRef.current
    lastValidHandData,   \* lastValidHandDataRef.current
    handData,            \* App: handDataRef.current
    handStatus,          \* App: handStatus
    isExploded,          \* ParticleSystem: isExplodedRef.current
    containerRotation,   \* ParticleSystem: containerRotation.current
    prevHandPos,         \* ParticleSystem: prevHandPos.current
    wasTracking,         \* ParticleSystem: wasTrackingRef.current
    instanceTarget,      \* SubSystem: targetPos of the last frame
    photoTarget,         \* PhotoGroup: localPos of the last frame
    userTextures,        \* App: userTextures.length
    isProcessing,        \* App: isProcessing
    loading,             \* App: images of the running upload not yet loaded
    closestIndex,        \* PhotoGroup: closestIndex (-1: no focus)
    minDistance,         \* PhotoGroup useFrame: minDistance of the last frame
                         \* that had photos (0: no such frame yet)
    mounted,             \* HandTracker is mounted (videoRef.current is set)
    handLandmarker,      \* HandTracker: handLandmarker, and how initVision went
    error,               \* HandTracker: error
    isStreaming,         \* HandTracker: isStreaming
    showOverlay,         \* HandTracker: showOverlay
    pendingMedia,        \* getUserMedia promises not yet settled
    starts,              \* calls of startCamera so far
    srcObject,           \* the video element: its stream and readiness
    loops,               \* prediction loops that have a callback scheduled
    requestRef,          \* requestRef.current: the loop that scheduled last
    liveStreams,         \* camera streams acquired whose tracks are running
    sinceProcess,        \* now - lastProcessTime.current at the latest
                         \* prediction callback, in ms, RATE_LIMIT for more
    openRun              \* history: processed ticks so far, while all of
                         \* them were hand-present raw OPEN ticks; else -1

vars == <<fistFrames, pinchFrames, openFrames, lastState, smoothed,
          missingHandFrames, lastValidHandData, handData, handStatus,
          isExploded, containerRotation, prevHandPos, wasTracking,
          instanceTarget, photoTarget, userTextures, isProcessing, loading,
          closestIndex, minDistance, mounted, handLandmarker, error, isStreaming,
          showOverlay, pendingMedia, starts, srcObject, loops, requestRef,
          sinceProcess, liveStreams,
          openRun>>

trackerVars == <<fistFrames, pinchFrames, openFrames, lastState, smoothed,
                 missingHandFrames, lastValidHandData>>
appVars == <<handData, handStatus>>
sceneVars == <<isExploded, containerRotation, prevHandPos, wasTracking,
               instanceTarget, photoTarget, closestIndex, minDistance>>
uploadVars == <<userTextures, isProcessing, loading>>
cameraVars == <<mounted, handLandmarker, error, isStreaming, showOverlay,
                pendingMedia, starts, srcObject, liveStreams>>
loopVars == <<loops, requestRef, sinceProcess>>

----------------------------------------------------------------------------
\* Bounds of the model

MaxFrames == 5       \* a persistence counter is not driven beyond this
MaxMissing == 41     \* the missing-frame counter is not driven beyond this
MaxAngle == 16       \* |pitch| and |yaw| are not driven beyond this
MaxFiles == 1        \* files selected in one upload
MaxPhotos == 2       \* photos uploaded at once where the focus is studied
MaxStarts == 2       \* calls of startCamera

----------------------------------------------------------------------------
\* Program constants

THRESHOLD == 3
GRACE_LIMIT == 40
DEADZONE == 1
PinchOne == 10
WristCentre == 1000
MaxUploadFiles == 10
FOCUS_CUTOFF == 12   \* distances to the camera are in scene units
RATE_LIMIT == 30     \* ms

----------------------------------------------------------------------------
\* Arithmetic

Abs(n) == IF n < 0 THEN -n ELSE n
Min(a, b) == IF a < b THEN a ELSE b
Max(a, b) == IF a > b THEN a ELSE b

\* n/d rounded to the nearest unit (d > 0), ties away from zero
RoundDiv(n, d) ==
    IF n >= 0 THEN (2 * n + d) \div (2 * d)
              ELSE -((2 * (-n) + d) \div (2 * d))

\* THREE.MathUtils.lerp(x, y, t) = (1 - t) * x + t * y with t = tNum/tDen
Lerp(x, y, tNum, tDen) == RoundDiv((tDen - tNum) * x + tNum * y, tDen)

----------------------------------------------------------------------------
\* Gesture classifier (one landmark frame)

Tips == {8, 12, 16, 20}

\* A landmark frame, reduced to the quantities predict reads from it:
\*   palmScale = d(0,9), tip[t] = d(0,t), pinchDist = d(4,8), wrist = lm[0]
MakeFrame(ps, t8, t12, t16, t20, pd, wx, wy) ==
    [palmScale |-> ps,
     tip |-> (8 :> t8 @@ 12 :> t12 @@ 16 :> t16 @@ 20 :> t20),
     pinchDist |-> pd, wristX |-> wx, wristY |-> wy]

RawX(f) == WristCentre - f.wristX
RawY(f) == WristCentre - f.wristY

FoldedCount(f) == Cardinality({t \in Tips : f.tip[t] * 10 < f.palmScale * 14})
ExtendedCount(f) == Cardinality({t \in Tips : f.tip[t] * 10 > f.palmScale * 17})
IsMiddleExtended(f) == f.tip[12] * 10 > f.palmScale * 15
NormPinchBelowHalf(f) == f.pinchDist * 2 < f.palmScale

\* mutant: the normalised pinch distance is not clamped
TargetPinchUnclamped(f) ==
    IF f.palmScale > 0
    THEN RoundDiv(f.pinchDist * PinchOne, f.palmScale)
    ELSE PinchOne

TargetPinch(f) ==
    IF f.palmScale > 0
    THEN Min(Max(RoundDiv(f.pinchDist * PinchOne, f.palmScale), 0), PinchOne)
    ELSE PinchOne

\* mutant: the pinch test comes first
RawGesturePinchFirst(f) ==
    IF f.palmScale > 0
    THEN IF NormPinchBelowHalf(f) /\ IsMiddleExtended(f) THEN "PINCH"
         ELSE IF FoldedCount(f) >= 3 THEN "FIST"
         ELSE IF ExtendedCount(f) >= 3 THEN "OPEN"
         ELSE "NEUTRAL"
    ELSE "NEUTRAL"

\* mutant: a frame without a palm scale counts as a fist
RawGestureDegenerateFist(f) ==
    IF f.palmScale > 0
    THEN IF FoldedCount(f) >= 3 THEN "FIST"
         ELSE IF ExtendedCount(f) >= 3 THEN "OPEN"
         ELSE IF NormPinchBelowHalf(f) /\ IsMiddleExtended(f) THEN "PINCH"
         ELSE "NEUTRAL"
    ELSE "FIST"

RawGesture(f) ==
    IF f.palmScale > 0
    THEN IF FoldedCount(f) >= 3 THEN "FIST"
         ELSE IF ExtendedCount(f) >= 3 THEN "OPEN"
         ELSE IF NormPinchBelowHalf(f) /\ IsMiddleExtended(f) THEN "PINCH"
         ELSE "NEUTRAL"
    ELSE "NEUTRAL"

----------------------------------------------------------------------------
\* Temporal stabilizer

Gestures == {"PINCH", "FIST", "OPEN"}
States == Gestures \cup {"NEUTRAL"}

Bump(flag, c) == IF flag THEN c + 1 ELSE 0

\* mutant: the all-zero case does not return to NEUTRAL
FinalStateNoNeutral(fist, pinch, open, last) ==
    IF pinch > THRESHOLD THEN "PINCH"
    ELSE IF fist > THRESHOLD THEN "FIST"
    ELSE IF open > THRESHOLD THEN "OPEN"
    ELSE last

\* mutant: a counter at the threshold already switches the state
FinalStateAtThreshold(fist, pinch, open, last) ==
    IF pinch >= THRESHOLD THEN "PINCH"
    ELSE IF fist >= THRESHOLD THEN "FIST"
    ELSE IF open >= THRESHOLD THEN "OPEN"
    ELSE IF fist = 0 /\ pinch = 0 /\ open = 0 THEN "NEUTRAL"
    ELSE last

\* mutant: the fist and open branches name each other's state
FinalStateSwapped(fist, pinch, open, last) ==
    IF pinch > THRESHOLD THEN "PINCH"
    ELSE IF fist > THRESHOLD THEN "OPEN"
    ELSE IF open > THRESHOLD THEN "FIST"
    ELSE IF fist = 0 /\ pinch = 0 /\ open = 0 THEN "NEUTRAL"
    ELSE last

\* mutant: no retention of the previous state while a counter warms up
FinalStateNotSticky(fist, pinch, open, last) ==
    IF pinch > THRESHOLD THEN "PINCH"
    ELSE IF fist > THRESHOLD THEN "FIST"
    ELSE IF open > THRESHOLD THEN "OPEN"
    ELSE "NEUTRAL"

FinalState(fist, pinch, open, last) ==
    IF pinch > THRESHOLD THEN "PINCH"
    ELSE IF fist > THRESHOLD THEN "FIST"
    ELSE IF open > THRESHOLD THEN "OPEN"
    ELSE IF fist = 0 /\ pinch = 0 /\ open = 0 THEN "NEUTRAL"
    ELSE last

\* mutant: alpha is 1.3, the smoothed value passes the raw one
SmoothOvershoot(s, raw) == s + RoundDiv((raw - s) * 13, 10)

Smooth(s, raw) == s + RoundDiv((raw - s) * 3, 10)

\* mutant: hasHand is set for a relaxed hand only
NewDataHandIfRelaxed(finalState, sm) ==
    [hasHand |-> finalState = "NEUTRAL",
     isOpen |-> finalState = "OPEN",
     isClosed |-> finalState = "FIST",
     isPinching |-> finalState = "PINCH",
     pinchDistance |-> sm.pinch,
     palmPosition |-> [x |-> sm.x, y |-> sm.y, z |-> 0]]

\* mutant: isOpen is also set for a pinch
NewDataOverlap(finalState, sm) ==
    [hasHand |-> TRUE,
     isOpen |-> finalState \in {"OPEN", "PINCH"},
     isClosed |-> finalState = "FIST",
     isPinching |-> finalState = "PINCH",
     pinchDistance |-> sm.pinch,
     palmPosition |-> [x |-> sm.x, y |-> sm.y, z |-> 0]]

NewData(finalState, sm) ==
    [hasHand |-> TRUE,
     isOpen |-> finalState = "OPEN",
     isClosed |-> finalState = "FIST",
     isPinching |-> finalState = "PINCH",
     pinchDistance |-> sm.pinch,
     palmPosition |-> [x |-> sm.x, y |-> sm.y, z |-> 0]]

ResetData ==
    [hasHand |-> FALSE, isOpen |-> FALSE, isClosed |-> FALSE,
     isPinching |-> FALSE, pinchDistance |-> PinchOne,
     palmPosition |-> [x |-> 0, y |-> 0, z |-> 0]]

\* App.handleHandUpdate: the status line derived from a GestureState
StatusOf(data) ==
    IF data.hasHand
    THEN IF data.isPinching THEN "Pinch"
         ELSE IF data.isClosed THEN "Fist"
         ELSE IF data.isOpen THEN "Open"
         ELSE "Relaxed"
    ELSE "Searching"

\* onHandUpdate(data)
Emit(data) ==
    /\ handData' = data
    /\ handStatus' = StatusOf(data)


\* mutant: a counter whose gesture is not seen keeps its value
CountersKept(g) ==
    [fist |-> IF g = "FIST" THEN fistFrames + 1 ELSE fistFrames,
     pinch |-> IF g = "PINCH" THEN pinchFrames + 1 ELSE pinchFrames,
     open |-> IF g = "OPEN" THEN openFrames + 1 ELSE openFrames]

\* predict, lines 184-186: the three persistence counters after a frame of
\* raw gesture g
Counters(g) ==
    [fist |-> Bump(g = "FIST", fistFrames),
     pinch |-> Bump(g = "PINCH", pinchFrames),
     open |-> Bump(g = "OPEN", openFrames)]

\* predict, lines 200-203
SmoothAll(sm, f) ==
    [x |-> Smooth(sm.x, RawX(f)),
     y |-> Smooth(sm.y, RawY(f)),
     pinch |-> Smooth(sm.pinch, TargetPinch(f))]

\* mutant: the grace period lasts one frame longer
InGraceInclusive(missing) == missing <= GRACE_LIMIT

\* predict, line 219: the last valid GestureState is emitted again
InGrace(missing) == missing < GRACE_LIMIT

\* predict, line 126: the frame is processed when the model is there and the
\* video element is mounted, playing and has data
Processing ==
    /\ mounted
    /\ handLandmarker = "loaded"
    /\ srcObject = "loaded"

\* predict, line 237: loop l schedules its next callback
Reschedule(l) ==
    /\ requestRef' = l
    /\ UNCHANGED loops

\* ms between a prediction callback and the one before it (0: two loops in
\* one display frame)
Delays == {0, 10, 16, RATE_LIMIT}

\* predict, lines 119-120: now - lastProcessTime.current for a callback that
\* runs dt ms after the one before it
Elapsed(dt) == Min(sinceProcess + dt, RATE_LIMIT)

\* mutant: the rate limit is not tested
RatePassedAlways(elapsed) == elapsed >= 0

\* predict, lines 120-124: the callback is not rate-limited
RatePassed(elapsed) == ~(elapsed < RATE_LIMIT)

\* predict, line 124: a callback that passes the rate limit becomes the
\* last processed one
PassRate(dt) ==
    /\ RatePassed(Elapsed(dt))
    /\ sinceProcess' = 0

\* predict, lines 141-214: the refs after a frame f that holds a hand, up
\* to the call of onHandUpdate
Stabilize(f) ==
    LET g == RawGesture(f)
        p == Counters(g)
        finalState == FinalState(p.fist, p.pinch, p.open, lastState)
        sm == SmoothAll(smoothed, f)
        newData == NewData(finalState, sm)
    IN  /\ p.fist <= MaxFrames /\ p.pinch <= MaxFrames /\ p.open <= MaxFrames
        /\ missingHandFrames' = 0
        /\ fistFrames' = p.fist
        /\ pinchFrames' = p.pinch
        /\ openFrames' = p.open
        /\ lastState' = finalState
        /\ smoothed' = sm
        /\ lastValidHandData' = newData
        /\ openRun' = IF openRun >= 0 /\ g = "OPEN" THEN openRun + 1 ELSE -1
        /\ UNCHANGED <<sceneVars, uploadVars>>

\* predict, lines 141-215: a frame f that holds a hand is processed
ProcessHand(f) ==
    /\ Stabilize(f)
    /\ Emit(lastValidHandData')

\* predict, lines 216-233: a frame that holds no hand is processed
ProcessNoHand ==
    /\ missingHandFrames < MaxMissing
    /\ missingHandFrames' = missingHandFrames + 1
    /\ IF InGrace(missingHandFrames')
       THEN /\ Emit(lastValidHandData)
            /\ UNCHANGED lastState
       ELSE /\ lastState' = "NEUTRAL"
            /\ Emit(ResetData)
    /\ openRun' = -1
    /\ UNCHANGED <<fistFrames, pinchFrames, openFrames, smoothed,
                   lastValidHandData, sceneVars, uploadVars>>

\* A prediction callback, dt ms after the one before it, that processes a
\* frame f with a hand
PredictHandAt(f, dt) ==
    \E l \in loops :
        /\ PassRate(dt)
        /\ Processing
        /\ ProcessHand(f)
        /\ Reschedule(l)
        /\ UNCHANGED cameraVars

\* A processed prediction tick whose frame f holds a hand
PredictHand(f) == \E dt \in Delays : PredictHandAt(f, dt)

\* A prediction callback, dt ms after the one before it, that processes a
\* frame without a hand
PredictNoHandAt(dt) ==
    \E l \in loops :
        /\ PassRate(dt)
        /\ Processing
        /\ ProcessNoHand
        /\ Reschedule(l)
        /\ UNCHANGED cameraVars

\* A processed prediction tick whose frame holds no hand
PredictNoHand == \E dt \in Delays : PredictNoHandAt(dt)

----------------------------------------------------------------------------
\* Scene: the useFrame callbacks of one rendered frame

\* mutant: an open hand toggles the shape mode
ShapeModeToggle(hd, exploded) ==
    IF hd.hasHand
    THEN LET afterOpen == IF hd.isOpen THEN ~exploded ELSE exploded
         IN  IF hd.isClosed THEN FALSE ELSE afterOpen
    ELSE exploded

\* ParticleSystem useFrame, shape state machine
ShapeMode(hd, exploded) ==
    IF hd.hasHand
    THEN LET afterOpen == IF hd.isOpen THEN TRUE ELSE exploded
         IN  IF hd.isClosed THEN FALSE ELSE afterOpen
    ELSE exploded

\* mutant: the remembered pointer is never replaced before the delta
ReferenceKept(hd, prev, tracking) ==
    IF tracking THEN prev ELSE [x |-> prev.x, y |-> prev.y]

\* ParticleSystem useFrame: the reference the pointer delta is taken from
Reference(hd, prev, tracking) ==
    IF tracking THEN prev ELSE [x |-> hd.palmPosition.x, y |-> hd.palmPosition.y]

\* mutant: the remembered pointer is not brought up to date
RememberedStale(hd, prev) ==
    IF hd.hasHand THEN [x |-> prev.x, y |-> prev.y] ELSE prev

\* ParticleSystem useFrame, line 450: the pointer remembered for the next
\* frame
Remembered(hd, prev) ==
    IF hd.hasHand THEN [x |-> hd.palmPosition.x, y |-> hd.palmPosition.y]
                  ELSE prev

\* mutant: a delta of exactly the deadzone already turns the field
OutsideDeadzoneInclusive(dx, dy) == Abs(dx) >= DEADZONE \/ Abs(dy) >= DEADZONE

OutsideDeadzone(dx, dy) == Abs(dx) > DEADZONE \/ Abs(dy) > DEADZONE

\* mutant: an open hand also rolls the field
GestureRotationRoll(hd, rot, dx, dy) ==
    IF OutsideDeadzone(dx, dy)
    THEN IF hd.isClosed
         THEN [rot EXCEPT !.y = @ + dx * 8, !.x = Lerp(@, 0, 1, 10)]
         ELSE IF hd.isOpen
              THEN [rot EXCEPT !.x = @ + dy * 8, !.y = @ + dx * 8,
                               !.z = @ + dx * 8]
              ELSE rot
    ELSE rot

\* mutant: a fist turns both axes, as an open hand does
GestureRotationFistBoth(hd, rot, dx, dy) ==
    IF OutsideDeadzone(dx, dy)
    THEN IF hd.isClosed \/ hd.isOpen
         THEN [rot EXCEPT !.x = @ + dy * 8, !.y = @ + dx * 8]
         ELSE rot
    ELSE rot

\* ParticleSystem useFrame, rotation control: sensitivity 0.8, one pointer
\* unit is ten angle units
GestureRotation(hd, rot, dx, dy) ==
    IF OutsideDeadzone(dx, dy)
    THEN IF hd.isClosed
         THEN [rot EXCEPT !.y = @ + dx * 8, !.x = Lerp(@, 0, 1, 10)]
         ELSE IF hd.isOpen
              THEN [rot EXCEPT !.x = @ + dy * 8, !.y = @ + dx * 8]
              ELSE rot
    ELSE rot

\* mutant: the auto-level takes 10% off per frame
AutoLevelFast(rot, exploded) ==
    IF ~exploded
    THEN [rot EXCEPT !.x = Lerp(@, 0, 1, 10), !.z = Lerp(@, 0, 1, 10)]
    ELSE rot

\* mutant: the auto-level also runs while the field is expanded
AutoLevelAlways(rot, exploded) ==
    [rot EXCEPT !.x = Lerp(@, 0, 1, 20), !.z = Lerp(@, 0, 1, 20)]

\* ParticleSystem useFrame, auto-level in tree mode
AutoLevel(rot, exploded) ==
    IF ~exploded
    THEN [rot EXCEPT !.x = Lerp(@, 0, 1, 20), !.z = Lerp(@, 0, 1, 20)]
    ELSE rot

\* mutant: the sway is added in both shape modes
TargetPosAlwaysSway(exploded) ==
    IF exploded THEN [anchor |-> "spherePos", sway |-> TRUE]
                ELSE [anchor |-> "treePos", sway |-> TRUE]

\* SubSystem and PhotoGroup useFrame: the local target of an object, as
\* the anchor it is copied from and whether the sine sway is added to y
TargetPos(exploded) ==
    IF exploded THEN [anchor |-> "spherePos", sway |-> FALSE]
                ELSE [anchor |-> "treePos", sway |-> TRUE]

NoTarget == [anchor |-> "none", sway |-> FALSE]

\* PhotoGroup: activePhotos.length
ActivePhotos(textures) == Min(textures, MaxUploadFiles)

\* PhotoGroup useFrame, lines 310-348: the scan for the photo nearest to
\* the camera; best.idx = -1 stands for minDistance = Infinity
RECURSIVE Scan(_, _, _, _)
Scan(dist, i, n, best) ==
    IF i = n
    THEN best
    ELSE Scan(dist, i + 1, n,
              IF best.idx = -1 \/ dist[i] < best.min
              THEN [min |-> dist[i], idx |-> i]
              ELSE best)

\* PhotoGroup useFrame: minDistance and idx after the scan of n photos
Nearest(dist, n) == Scan(dist, 0, n, [min |-> 0, idx |-> -1])

\* mutant: a photo at exactly the cutoff distance still gets the focus
WithinCutoffInclusive(min) == min <= FOCUS_CUTOFF

\* PhotoGroup useFrame, line 354
WithinCutoff(min) == min < FOCUS_CUTOFF

\* mutant: the focus goes to the last photo
FocusLast(dist, n) ==
    IF WithinCutoff(Nearest(dist, n).min) THEN n - 1 ELSE -1

\* PhotoGroup useFrame, lines 350-358: the new closestIndex for n > 0 photos
\* at distances dist[0] .. dist[n-1] from the camera
Focus(dist, n) ==
    IF WithinCutoff(Nearest(dist, n).min) THEN Nearest(dist, n).idx ELSE -1

\* PhotoGroup render, line 370
IsHovered(i) == closestIndex = i

\* mutant: every photo is selected while the hand pinches
IsSelectedAll(i) == handData.isPinching

\* PhotoGroup render, lines 361 and 371.  PhotoGroup renders again after
\* every frame (setDisplayProps) and whenever the status line changes
\* (App.handleHandUpdate), so it reads the current GestureState.
IsSelected(i) == closestIndex = i /\ handData.isPinching

\* the distances of n photos to the camera, each drawn from D
PhotoDistances(D, n) == [0 .. (n - 1) -> D]

\* One rendered frame in which the photos are at the distances dist from the
\* camera.  The callbacks of SubSystem and PhotoGroup run in the same frame
\* as the one of ParticleSystem, before it or after it.
RenderWith(dist) ==
    LET hd == handData
        exploded == ShapeMode(hd, isExploded)
        ref == Reference(hd, prevHandPos, wasTracking)
        dx == hd.palmPosition.x - ref.x
        dy == hd.palmPosition.y - ref.y
        turned == IF hd.hasHand
                  THEN GestureRotation(hd, containerRotation, dx, dy)
                  ELSE containerRotation
        rot == AutoLevel(turned, exploded)
    IN  /\ Abs(rot.x) <= MaxAngle /\ Abs(rot.y) <= MaxAngle
        /\ isExploded' = exploded
        /\ containerRotation' = rot
        /\ prevHandPos' = Remembered(hd, prevHandPos)
        /\ wasTracking' = hd.hasHand
        /\ \E childrenFirst \in BOOLEAN :
              LET seen == IF childrenFirst THEN isExploded ELSE exploded
              IN  /\ instanceTarget' = TargetPos(seen)
                  /\ photoTarget' = IF ActivePhotos(userTextures) = 0
                                    THEN photoTarget
                                    ELSE TargetPos(seen)
        /\ closestIndex' = IF ActivePhotos(userTextures) = 0
                           THEN closestIndex
                           ELSE Focus(dist, ActivePhotos(userTextures))
        /\ minDistance' = IF ActivePhotos(userTextures) = 0
                          THEN minDistance
                          ELSE Nearest(dist, ActivePhotos(userTextures)).min
        /\ UNCHANGED <<trackerVars, appVars, uploadVars, cameraVars, loopVars,
                       openRun>>

\* One rendered frame, the photos at distances drawn from D
RenderFrame(D) ==
    \E dist \in PhotoDistances(D, ActivePhotos(userTextures)) : RenderWith(dist)

\* every photo is out of reach of the focus
FarDistances == {15}

\* One rendered frame, no photo near the camera
RenderTick == RenderFrame(FarDistances)

----------------------------------------------------------------------------
\* Photo upload (App.handleFileUpload)

\* no upload is running
NoUpload == [todo |-> 0, done |-> 0, failed |-> FALSE]

\* n files are selected; at most MaxUploadFiles of them are loaded
HandleFileUpload(n) ==
    /\ ~isProcessing
    /\ n > 0
    /\ isProcessing' = TRUE
    /\ loading' = [todo |-> Min(n, MaxUploadFiles), done |-> 0, failed |-> FALSE]
    /\ UNCHANGED <<userTextures, trackerVars, appVars, sceneVars, cameraVars,
                   loopVars, openRun>>

\* loader.load calls back: one promise resolves; when all have, Promise.all
\* installs the textures
TextureLoaded ==
    /\ isProcessing
    /\ loading.todo > 0
    /\ LET l == [loading EXCEPT !.todo = @ - 1, !.done = @ + 1]
       IN  /\ loading' = IF l.todo = 0 /\ ~l.failed THEN NoUpload ELSE l
           /\ IF l.todo = 0 /\ ~l.failed
              THEN userTextures' = l.done /\ isProcessing' = FALSE
              ELSE UNCHANGED <<userTextures, isProcessing>>
    /\ UNCHANGED <<trackerVars, appVars, sceneVars, cameraVars, loopVars,
                   openRun>>

\* an image fails to load: loader.load has no error callback, the promise
\* of that file stays pending
TextureFailed ==
    /\ isProcessing
    /\ loading.todo > 0
    /\ loading' = [loading EXCEPT !.todo = @ - 1, !.failed = TRUE]
    /\ UNCHANGED <<userTextures, isProcessing, trackerVars, appVars,
                   sceneVars, cameraVars, loopVars, openRun>>

----------------------------------------------------------------------------
\* HandTracker: model, camera, overlay, prediction loops, teardown.  The
\* browser is taken to offer getUserMedia.

\* startCamera, lines 75-83: the error is cleared, the camera is asked for
StartCamera ==
    /\ starts < MaxStarts
    /\ starts' = starts + 1
    /\ error' = "none"
    /\ pendingMedia' = pendingMedia + 1

\* initVision: the model has loaded; the effect of lines 111-115 then starts
\* the camera if the overlay is open and shows no error
ModelLoaded ==
    /\ mounted
    /\ handLandmarker = "pending"
    /\ handLandmarker' = "loaded"
    /\ IF ~isStreaming /\ error = "none" /\ showOverlay
       THEN StartCamera
       ELSE UNCHANGED <<starts, error, pendingMedia>>
    /\ UNCHANGED <<mounted, liveStreams, isStreaming, showOverlay, srcObject, loopVars,
                   trackerVars, appVars, sceneVars, uploadVars, openRun>>

\* initVision: loading the model has thrown (lines 65-68)
ModelFailed ==
    /\ mounted
    /\ handLandmarker = "pending"
    /\ handLandmarker' = "failed"
    /\ error' = "model"
    /\ UNCHANGED <<mounted, liveStreams, isStreaming, showOverlay, pendingMedia, starts,
                   srcObject, loopVars, trackerVars, appVars, sceneVars,
                   uploadVars, openRun>>

\* HandTracker render, line 262: the start overlay is on screen
OverlayOpen == mounted /\ ~isStreaming /\ showOverlay

\* a click on "Start Experience" (lines 298-304), enabled once the model is
\* there
StartExperience ==
    /\ OverlayOpen
    /\ error = "none"
    /\ handLandmarker = "loaded"
    /\ StartCamera
    /\ UNCHANGED <<mounted, liveStreams, handLandmarker, isStreaming, showOverlay,
                   srcObject, loopVars, trackerVars, appVars, sceneVars,
                   uploadVars, openRun>>

\* a click on "Try Again" (lines 280-285), offered while an error is shown
TryAgain ==
    /\ OverlayOpen
    /\ error # "none"
    /\ StartCamera
    /\ UNCHANGED <<mounted, liveStreams, handLandmarker, isStreaming, showOverlay,
                   srcObject, loopVars, trackerVars, appVars, sceneVars,
                   uploadVars, openRun>>

\* a click on the X of the overlay (line 267)
CloseOverlay ==
    /\ OverlayOpen
    /\ showOverlay' = FALSE
    /\ UNCHANGED <<mounted, liveStreams, handLandmarker, error, isStreaming, pendingMedia,
                   starts, srcObject, loopVars, trackerVars, appVars,
                   sceneVars, uploadVars, openRun>>

\* a click on the floating camera button (lines 312-318)
OpenOverlay ==
    /\ mounted /\ ~isStreaming /\ ~showOverlay
    /\ showOverlay' = TRUE
    /\ UNCHANGED <<mounted, liveStreams, handLandmarker, error, isStreaming, pendingMedia,
                   starts, srcObject, loopVars, trackerVars, appVars,
                   sceneVars, uploadVars, openRun>>

\* getUserMedia resolves (lines 93-103): the tracks of the new stream run.
\* The stream becomes the source of the video element, which loads it, in
\* place of the stream that was the source before; after the unmount
\* videoRef.current is null and the stream is dropped
CameraGranted ==
    /\ pendingMedia > 0
    /\ pendingMedia' = pendingMedia - 1
    /\ srcObject' = IF mounted THEN "loading" ELSE srcObject
    /\ liveStreams' = liveStreams + 1
    /\ UNCHANGED <<mounted, handLandmarker, error, isStreaming, showOverlay,
                   starts, loopVars, trackerVars, appVars, sceneVars,
                   uploadVars, openRun>>

\* getUserMedia rejects (lines 104-107)
CameraDenied ==
    /\ pendingMedia > 0
    /\ pendingMedia' = pendingMedia - 1
    /\ error' = IF mounted THEN "camera" ELSE error
    /\ UNCHANGED <<mounted, liveStreams, handLandmarker, isStreaming, showOverlay, starts,
                   srcObject, loopVars, trackerVars, appVars, sceneVars,
                   uploadVars, openRun>>

\* the first free loop number
NewLoop == CHOOSE l \in 1..MaxStarts :
               l \notin loops /\ \A k \in 1..(l - 1) : k \in loops

\* onloadeddata (lines 98-102): the overlay goes away and predict() is
\* called, which starts a prediction loop of its own.  That first call
\* processes a frame of F, or a frame without a hand, or no frame (no model,
\* or the video not yet at readyState 4).
LoadedData(F) ==
    /\ mounted
    /\ srcObject = "loading"
    /\ srcObject' = "loaded"
    /\ isStreaming' = TRUE
    /\ showOverlay' = FALSE
    /\ loops' = loops \cup {NewLoop}
    /\ requestRef' = NewLoop
    /\ \E dt \in Delays :
          \/ /\ sinceProcess' = IF RatePassed(Elapsed(dt)) THEN 0 ELSE Elapsed(dt)
             /\ UNCHANGED <<trackerVars, appVars, sceneVars, uploadVars,
                            openRun>>
          \/ /\ PassRate(dt)
             /\ handLandmarker = "loaded"
             /\ \E f \in F : ProcessHand(f)
          \/ /\ PassRate(dt)
             /\ handLandmarker = "loaded"
             /\ ProcessNoHand
    /\ UNCHANGED <<mounted, liveStreams, handLandmarker, error, pendingMedia, starts>>

\* mutant: a callback that processes no frame counts as a frame without a
\* hand
PredictSkipCountsAt(dt) ==
    \E l \in loops :
        /\ sinceProcess' = IF RatePassed(Elapsed(dt)) THEN 0 ELSE Elapsed(dt)
        /\ Reschedule(l)
        /\ missingHandFrames < MaxMissing
        /\ missingHandFrames' = missingHandFrames + 1
        /\ UNCHANGED <<fistFrames, pinchFrames, openFrames, lastState,
                       smoothed, lastValidHandData, cameraVars, appVars,
                       sceneVars, uploadVars, openRun>>

\* A prediction callback, dt ms after the one before it, that processes no
\* frame: it is rate-limited (line 120), or it passes the rate limit and
\* finds no new video frame (line 128), no model or no playing video (line
\* 126)
PredictSkipAt(dt) ==
    \E l \in loops :
        /\ sinceProcess' = IF RatePassed(Elapsed(dt)) THEN 0 ELSE Elapsed(dt)
        /\ Reschedule(l)
        /\ UNCHANGED <<cameraVars, trackerVars, appVars, sceneVars,
                       uploadVars, openRun>>

\* A prediction tick that processes no frame
PredictSkip == \E dt \in Delays : PredictSkipAt(dt)

\* the cleanup effect, lines 240-248: the callback requestRef names is
\* cancelled, the tracks of the current stream are stopped
Teardown ==
    /\ mounted
    /\ mounted' = FALSE
    /\ loops' = loops \ {requestRef}
    /\ srcObject' = IF srcObject = "none" THEN "none" ELSE "stopped"
    /\ liveStreams' = IF srcObject = "none" THEN liveStreams
                                            ELSE liveStreams - 1
    /\ UNCHANGED <<handLandmarker, error, isStreaming, showOverlay,
                   pendingMedia, starts, requestRef, sinceProcess,
                   trackerVars, appVars, sceneVars, uploadVars, openRun>>

----------------------------------------------------------------------------
\* Exceptions inside a prediction tick

\* where a processed tick can throw: in detectForVideo (line 130), in the
\* reading of the landmarks (lines 145-177), in onHandUpdate (line 215)
ThrowPoints == {"detect", "landmarks", "callback"}

\* mutant: the call of onHandUpdate is outside the try block
InsideTryNoCallback(point) == point \in {"detect", "landmarks"}

\* the try block of lines 127-235
InsideTry(point) == point \in {"detect", "landmarks", "callback"}

\* A processed prediction tick that throws at point while it handles the
\* frame f: what was assigned before the throw stays assigned; an exception
\* that leaves predict skips the requestAnimationFrame of line 237
PredictThrow(point, f) ==
    \E l \in loops :
        /\ \E dt \in Delays : PassRate(dt)
        /\ Processing
        /\ point \in ThrowPoints
        /\ IF point = "detect"
           THEN UNCHANGED <<trackerVars, sceneVars, uploadVars, openRun>>
           ELSE IF point = "landmarks"
           THEN /\ missingHandFrames' = 0
                /\ openRun' = -1
                /\ UNCHANGED <<fistFrames, pinchFrames, openFrames, lastState,
                               smoothed, lastValidHandData, sceneVars,
                               uploadVars>>
           ELSE Stabilize(f)
        /\ UNCHANGED appVars
        /\ IF InsideTry(point)
           THEN Reschedule(l)
           ELSE loops' = loops \ {l} /\ UNCHANGED requestRef
        /\ UNCHANGED cameraVars

----------------------------------------------------------------------------
\* Inputs

\* Hand shapes: palm scale, the four fingertip distances, pinch distance
HandShapes ==
    { <<10, 13, 13, 13, 13, 12>>,     \* fist
      <<10, 18, 18, 18, 18, 12>>,     \* open hand
      <<10, 15, 18, 13, 13, 4>>,      \* pinch
      <<10, 16, 16, 16, 16, 12>>,     \* relaxed
      <<10, 15, 15, 13, 13, 4>>,      \* thumb on index, middle finger bent
      <<10, 15, 18, 13, 13, 5>>,      \* pinch distance at half the palm scale
      <<0, 0, 0, 0, 0, 0>> }          \* degenerate palm

FramesAt(shapes, wrists) ==
    { MakeFrame(s[1], s[2], s[3], s[4], s[5], s[6], w[1], w[2]) :
        s \in shapes, w \in wrists }

\* every hand shape, the wrist at the centre of the image
GestureFrames == FramesAt(HandShapes, {<<WristCentre, WristCentre>>})

----------------------------------------------------------------------------
\* Specifications

\* the tracker, the scene and the upload panel after construction
InitScene ==
    /\ fistFrames = 0 /\ pinchFrames = 0 /\ openFrames = 0
    /\ lastState = "NEUTRAL"
    /\ smoothed = [x |-> 0, y |-> 0, pinch |-> PinchOne]
    /\ missingHandFrames = 0
    /\ lastValidHandData = ResetData
    /\ handData = ResetData
    /\ handStatus = "Searching"
    /\ isExploded = FALSE
    /\ containerRotation = [x |-> 0, y |-> 0, z |-> 0]
    /\ prevHandPos = [x |-> 0, y |-> 0]
    /\ wasTracking = FALSE
    /\ instanceTarget = NoTarget
    /\ photoTarget = NoTarget
    /\ userTextures = 0
    /\ isProcessing = FALSE
    /\ loading = NoUpload
    /\ closestIndex = -1
    /\ minDistance = 0
    /\ openRun = 0

\* HandTracker after construction: the model is being loaded, the overlay
\* is open, the camera has not been asked for
Init ==
    /\ InitScene
    /\ mounted = TRUE
    /\ handLandmarker = "pending"
    /\ error = "none"
    /\ isStreaming = FALSE
    /\ showOverlay = TRUE
    /\ pendingMedia = 0
    /\ starts = 0
    /\ srcObject = "none"
    /\ loops = {}
    /\ requestRef = 0
    /\ sinceProcess = RATE_LIMIT
    /\ liveStreams = 0

\* The model has loaded, the camera was started once and the video has
\* data: one prediction loop runs and has not processed a frame yet
Started ==
    /\ InitScene
    /\ mounted = TRUE
    /\ handLandmarker = "loaded"
    /\ error = "none"
    /\ isStreaming = TRUE
    /\ showOverlay = FALSE
    /\ pendingMedia = 0
    /\ starts = 1
    /\ srcObject = "loaded"
    /\ loops = {1}
    /\ requestRef = 1
    /\ sinceProcess = 0
    /\ liveStreams = 1

HandTick == \E f \in GestureFrames : PredictHand(f)

\* the tracker and the scene, the pointer at rest
Next ==
    \/ HandTick
    \/ PredictNoHand
    \/ RenderTick

Spec == Started /\ [][Next]_vars


----------------------------------------------------------------------------
\* Properties of the temporal stabilizer

ShowsState(data, st) ==
    /\ data.isOpen = (st = "OPEN")
    /\ data.isClosed = (st = "FIST")
    /\ data.isPinching = (st = "PINCH")

CounterOf(st) ==
    IF st = "PINCH" THEN pinchFrames
    ELSE IF st = "FIST" THEN fistFrames
    ELSE IF st = "OPEN" THEN openFrames
    ELSE 0

\* C1: on every processed tick with a hand, the new stable state is PINCH if
\* the pinch counter (after its update) is above 3, else FIST if the fist
\* counter is above 3, else OPEN if the open counter is above 3, else NEUTRAL
\* if the three counters are 0, else the previous stable state.
C1_StableRule ==
    [][HandTick =>
         /\ (pinchFrames' > 3) => lastState' = "PINCH"
         /\ (pinchFrames' <= 3 /\ fistFrames' > 3) => lastState' = "FIST"
         /\ (pinchFrames' <= 3 /\ fistFrames' <= 3 /\ openFrames' > 3)
               => lastState' = "OPEN"
         /\ (pinchFrames' = 0 /\ fistFrames' = 0 /\ openFrames' = 0)
               => lastState' = "NEUTRAL"
         /\ (/\ pinchFrames' <= 3 /\ fistFrames' <= 3 /\ openFrames' <= 3
             /\ pinchFrames' + fistFrames' + openFrames' > 0)
               => lastState' = lastState
         /\ ShowsState(handData', lastState')]_vars

\* C1 witness: a counter is warming up and another stable state is retained
C1_Witness ==
    /\ lastState = "FIST" /\ handData.isClosed
    /\ pinchFrames > 0 /\ pinchFrames <= 3
    /\ missingHandFrames = 0

\* C2: the stable state changes to PINCH, FIST or OPEN only on a tick at
\* which the counter of that gesture is strictly greater than 3.
C2_EnterAboveThreshold ==
    [][(lastState' # lastState /\ lastState' \in Gestures) =>
         /\ lastState' = "PINCH" => pinchFrames' > 3
         /\ lastState' = "FIST" => fistFrames' > 3
         /\ lastState' = "OPEN" => openFrames' > 3]_vars

\* C2 witness: PINCH has just been entered, its counter at 4
C2_Witness == lastState = "PINCH" /\ pinchFrames = 4 /\ handData.isPinching

\* C3 (as claimed): the stable state goes from a gesture to NEUTRAL only on a
\* tick at which the three counters are all 0, the grace-limit reset included.
C3_NeutralOnlyAtZero ==
    [][(lastState \in Gestures /\ lastState' = "NEUTRAL") =>
         (fistFrames' = 0 /\ pinchFrames' = 0 /\ openFrames' = 0)]_vars

\* C4 (as claimed): raw OPEN on ticks 0..4 from the initial state: the
\* emitted state is not OPEN at ticks 0 to 3 and is OPEN at tick 4.
C4_OpenAtTickFour ==
    /\ (openRun \in 1..4) => ~handData.isOpen
    /\ (openRun = 5) => handData.isOpen

\* C4 (amended): raw OPEN on ticks 0..4 from the initial state: the emitted
\* state is not OPEN at ticks 0 to 2, first becomes OPEN at tick 3 (the
\* fourth OPEN tick) and is still OPEN at tick 4.
C4_OpenAtTickThree ==
    /\ (openRun \in 1..3) => (~handData.isOpen /\ lastState = "NEUTRAL")
    /\ (openRun \in 4..5) => (handData.isOpen /\ lastState = "OPEN")

\* C4 witness: tick 4 of the run has been processed
C4_Witness == openRun = 5 /\ openFrames = 5 /\ handData.isOpen

AtMostOneFlag(data) ==
    /\ ~(data.isOpen /\ data.isClosed)
    /\ ~(data.isOpen /\ data.isPinching)
    /\ ~(data.isClosed /\ data.isPinching)

\* C5: in every GestureState handed to onHandUpdate (and in the one kept for
\* the grace period) at most one of isOpen, isClosed, isPinching is true.
C5_AtMostOneFlag == AtMostOneFlag(handData) /\ AtMostOneFlag(lastValidHandData)

\* C5 witness: a GestureState with one flag set is re-emitted in the grace
\* period
C5_Witness ==
    /\ handData.isPinching /\ handData.hasHand
    /\ missingHandFrames > 0 /\ missingHandFrames < 40

\* C6: a hand tick that emitted S leaves the missing-frame counter at 0; the
\* k-th no-hand tick after it emits S unchanged for k in 1..39 and the
\* baseline for k >= 40; rendered frames in between change none of this.
C6_GracePeriod ==
    [][/\ HandTick =>
            /\ missingHandFrames' = 0
            /\ lastValidHandData' = handData'
       /\ PredictNoHand =>
            /\ missingHandFrames' = missingHandFrames + 1
            /\ lastValidHandData' = lastValidHandData
            /\ (missingHandFrames' \in 1..39) => handData' = lastValidHandData
            /\ (missingHandFrames' >= 40) =>
                  handData' = [hasHand |-> FALSE, isOpen |-> FALSE,
                               isClosed |-> FALSE, isPinching |-> FALSE,
                               pinchDistance |-> PinchOne,
                               palmPosition |-> [x |-> 0, y |-> 0, z |-> 0]]
       /\ RenderTick =>
            UNCHANGED <<missingHandFrames, lastValidHandData, handData>>]_vars

\* C6 witness: the 40th no-hand tick after a hand tick that emitted OPEN
C6_Witness ==
    /\ missingHandFrames = 40
    /\ lastValidHandData.hasHand /\ lastValidHandData.isOpen
    /\ ~handData.hasHand

\* C7 (as claimed): the stable state is G and the frame before was raw G; a
\* frame of any other raw category (NEUTRAL included) leaves the emitted
\* stable state at G.
C7_AnyGlitchSuppressed ==
    [][\A f \in GestureFrames :
         (/\ PredictHand(f)
          /\ lastState \in Gestures /\ CounterOf(lastState) > 0
          /\ RawGesture(f) # lastState)
         => (lastState' = lastState /\ ShowsState(handData', lastState))]_vars

\* C7 (amended): the stable state is G and the frame before was raw G; one
\* frame of another gesture (PINCH, FIST or OPEN) leaves the emitted stable
\* state at G, and so do the raw G frames that follow; one raw NEUTRAL frame
\* sets the stable state to NEUTRAL at once.
C7_GestureGlitchSuppressed ==
    [][\A f \in GestureFrames :
         (PredictHand(f) /\ lastState \in Gestures) =>
            /\ (CounterOf(lastState) > 0 /\ RawGesture(f) \in Gestures)
                  => (lastState' = lastState /\ ShowsState(handData', lastState))
            /\ RawGesture(f) = lastState
                  => (lastState' = lastState /\ ShowsState(handData', lastState))
            /\ RawGesture(f) = "NEUTRAL"
                  => (lastState' = "NEUTRAL" /\ ShowsState(handData', "NEUTRAL"))]_vars

\* C7 witness: stable OPEN survived one raw FIST frame
C7_Witness ==
    /\ lastState = "OPEN" /\ handData.isOpen
    /\ fistFrames = 1 /\ missingHandFrames = 0

----------------------------------------------------------------------------
\* Properties of the shape mode

\* C8: on every rendered frame the shape mode becomes expanded if the
\* observed GestureState has isOpen, compact if it has isClosed, and keeps
\* its value otherwise (so a held isOpen or isClosed re-asserts the value).
C8_ShapeRule ==
    [][RenderTick =>
         /\ handData.isOpen => isExploded'
         /\ handData.isClosed => ~isExploded'
         /\ (~handData.isOpen /\ ~handData.isClosed)
               => (isExploded' = isExploded)]_vars

\* C8 witness: the field stays expanded under a stable PINCH
C8_Witness ==
    /\ isExploded /\ wasTracking /\ handData.isPinching
    /\ instanceTarget.anchor = "spherePos"


----------------------------------------------------------------------------
\* The field with uploaded photos

\* fist, open hand and pinch, the thumb near the index finger in all of
\* them, the wrist at the centre
FieldFrames ==
    FramesAt({ <<10, 13, 13, 13, 13, 4>>, <<10, 18, 18, 18, 18, 4>>,
               <<10, 15, 18, 13, 13, 4>> },
             {<<WristCentre, WristCentre>>})

FieldHandTick == \E f \in FieldFrames : PredictHand(f)
FileUpload == \E n \in 1..MaxFiles : HandleFileUpload(n)

NextField ==
    \/ FieldHandTick
    \/ PredictNoHand
    \/ RenderTick
    \/ FileUpload
    \/ TextureLoaded
    \/ TextureFailed

SpecField == Started /\ [][NextField]_vars

----------------------------------------------------------------------------
\* The moving pointer

\* fist, open hand and relaxed hand; the wrist at the centre of the image,
\* or 4 pointer units left of it and 3 above
PointerFrames ==
    FramesAt({ <<10, 13, 13, 13, 13, 12>>, <<10, 18, 18, 18, 18, 12>>,
               <<10, 16, 16, 16, 16, 12>> },
             {<<WristCentre, WristCentre>>, <<WristCentre - 4, WristCentre - 3>>})

PointerHandTick == \E f \in PointerFrames : PredictHand(f)

NextPointer ==
    \/ PointerHandTick
    \/ RenderTick

SpecPointer == Started /\ [][NextPointer]_vars

\* the delta of the pointer against the one of the previous rendered frame
\* is within the deadzone (0.003, one pointer unit)
SmallDelta ==
    /\ handData.hasHand /\ wasTracking
    /\ Abs(handData.palmPosition.x - prevHandPos.x) <= 1
    /\ Abs(handData.palmPosition.y - prevHandPos.y) <= 1

\* C10 (as claimed): a rendered frame whose pointer delta is within the
\* deadzone leaves pitch, yaw and roll as they were, in either shape mode.
C10_DeadzoneKeepsOrientation ==
    [][(RenderTick /\ SmallDelta) =>
         containerRotation' = containerRotation]_vars

\* C10 (amended): a rendered frame whose pointer delta is within the
\* deadzone leaves yaw as it was; it leaves pitch and roll as they were if
\* the shape mode is expanded at its end, and takes 5% off each of them
\* (the auto-level) if the shape mode is compact at its end.
C10_DeadzoneNoGestureRotation ==
    [][(RenderTick /\ SmallDelta) =>
         /\ containerRotation'.y = containerRotation.y
         /\ isExploded' => containerRotation' = containerRotation
         /\ ~isExploded' =>
               /\ containerRotation'.x = RoundDiv(95 * containerRotation.x, 100)
               /\ containerRotation'.z = RoundDiv(95 * containerRotation.z, 100)]_vars

\* C10 witness: a frame with no pointer movement has been rendered while the
\* field was turned about both axes
C10_Witness ==
    /\ handData.hasHand /\ wasTracking
    /\ prevHandPos.x = handData.palmPosition.x
    /\ prevHandPos.y = handData.palmPosition.y
    /\ containerRotation.x # 0 /\ containerRotation.y # 0
    /\ handData.isOpen /\ isExploded

----------------------------------------------------------------------------
\* Auto-level of the compact field

\* fist and open hand, the wrist 4 pointer units left of the centre of the
\* image and 7 above it
LevelFrames ==
    FramesAt({ <<10, 13, 13, 13, 13, 12>>, <<10, 18, 18, 18, 18, 12>> },
             {<<WristCentre - 4, WristCentre - 7>>})

LevelHandTick == \E f \in LevelFrames : PredictHand(f)

NextLevel ==
    \/ LevelHandTick
    \/ PredictNoHand
    \/ RenderTick

SpecLevel == Started /\ [][NextLevel]_vars

\* C11: on a rendered frame with the shape mode compact and no hand
\* present, pitch and roll each become 95% of their value (rounded to the
\* angle unit), so neither grows in absolute value nor changes sign, and yaw
\* stays as it was.
C11_CompactNoHandDecay ==
    [][(RenderTick /\ ~handData.hasHand /\ ~isExploded) =>
         /\ ~isExploded'
         /\ containerRotation'.x = RoundDiv(95 * containerRotation.x, 100)
         /\ containerRotation'.z = RoundDiv(95 * containerRotation.z, 100)
         /\ Abs(containerRotation'.x) <= Abs(containerRotation.x)
         /\ Abs(containerRotation'.z) <= Abs(containerRotation.z)
         /\ containerRotation'.x * containerRotation.x >= 0
         /\ containerRotation'.z * containerRotation.z >= 0
         /\ containerRotation'.y = containerRotation.y]_vars

\* C11 witness: the hand is gone for good, a frame has been rendered without
\* it, the compact field is still pitched by more than 10 units and yawed
C11_Witness ==
    /\ ~handData.hasHand /\ ~wasTracking /\ ~isExploded
    /\ missingHandFrames >= 40
    /\ containerRotation.x > 10
    /\ containerRotation.y # 0

\* the pointer delta a rendered frame computes (0 on a re-anchoring frame)
DeltaX ==
    IF handData.hasHand /\ wasTracking
    THEN handData.palmPosition.x - prevHandPos.x ELSE 0
DeltaY ==
    IF handData.hasHand /\ wasTracking
    THEN handData.palmPosition.y - prevHandPos.y ELSE 0

\* the hand is present and the delta is outside the deadzone
Turning == handData.hasHand /\ (Abs(DeltaX) > 1 \/ Abs(DeltaY) > 1)

\* C12: a rendered frame at whose end the shape mode is expanded changes
\* pitch by the OPEN increment dy*0.8 and by nothing else, so pitch is
\* decayed (5% auto-level, 10% pitch-on-fist) only on frames at whose end
\* the shape mode is compact; yaw changes by the increment dx*0.8 of a FIST
\* or OPEN turn and is never decayed.
C12_DecayOnlyCompact ==
    [][RenderTick =>
         /\ isExploded' =>
               containerRotation'.x = containerRotation.x +
                   (IF Turning /\ handData.isOpen THEN DeltaY * 8 ELSE 0)
         /\ ~isExploded' =>
               containerRotation'.x =
                   RoundDiv(95 * (IF Turning /\ handData.isClosed
                                  THEN RoundDiv(9 * containerRotation.x, 10)
                                  ELSE containerRotation.x), 100)
         /\ containerRotation'.y = containerRotation.y +
               (IF Turning /\ (handData.isOpen \/ handData.isClosed)
                THEN DeltaX * 8 ELSE 0)]_vars

\* C12 witness: a fist has brought the turned field back to the tree; pitch
\* has been decayed below one OPEN increment, yaw has been kept
C12_Witness ==
    /\ ~isExploded /\ handData.isClosed /\ wasTracking
    /\ containerRotation.x > 0 /\ containerRotation.x < 8
    /\ containerRotation.y # 0

----------------------------------------------------------------------------
\* Focus selection among the photos

\* distances of a photo to the camera: near, exactly at the cutoff, far
Distances == {8, FOCUS_CUTOFF, 15}

\* pinch and relaxed hand, the wrist at the centre of the image
FocusFrames ==
    FramesAt({ <<10, 15, 18, 13, 13, 4>>, <<10, 16, 16, 16, 16, 12>> },
             {<<WristCentre, WristCentre>>})

FocusHandTick == \E f \in FocusFrames : PredictHand(f)
FocusRenderTick == RenderFrame(Distances)
FocusUpload == \E n \in 1..MaxPhotos : HandleFileUpload(n)

NextFocus ==
    \/ FocusHandTick
    \/ FocusRenderTick
    \/ FocusUpload
    \/ TextureLoaded

SpecFocus == Started /\ [][NextFocus]_vars

\* the photos that are rendered
PhotoIndices == 0 .. (ActivePhotos(userTextures) - 1)

\* the smallest of the distances dist
Smallest(dist) == CHOOSE d \in Distances :
                      /\ \E i \in DOMAIN dist : dist[i] = d
                      /\ \A i \in DOMAIN dist : d <= dist[i]

\* C13: on every rendered frame with at least one photo, the hovered photo
\* is one at the minimum distance to the camera when that minimum is below
\* the cutoff 12.0, no photo is hovered when every photo is farther than
\* 12.0, and a photo that is not at the minimum distance is never hovered.
C13_NearestHovered ==
    [][\A dist \in PhotoDistances(Distances, ActivePhotos(userTextures)) :
         (RenderWith(dist) /\ ActivePhotos(userTextures) > 0) =>
            /\ Smallest(dist) < 12 =>
                  \E i \in PhotoIndices :
                     closestIndex' = i /\ dist[i] = Smallest(dist)
            /\ (\A i \in PhotoIndices : dist[i] > 12) => closestIndex' = -1
            /\ \A i \in PhotoIndices :
                  dist[i] # Smallest(dist) => closestIndex' # i]_vars

\* C13 witness: of two photos the second one is the nearer and is hovered
C13_Witness ==
    /\ userTextures = 2
    /\ closestIndex = 1 /\ IsHovered(1) /\ ~IsHovered(0)
    /\ minDistance = 8

\* C14 (as claimed): the focus is cleared only when the minimum distance is
\* above 12.0; at exactly 12.0 the photo at the minimum distance is hovered.
C14_HoveredAtCutoff ==
    [][\A dist \in PhotoDistances(Distances, ActivePhotos(userTextures)) :
         (RenderWith(dist) /\ ActivePhotos(userTextures) > 0) =>
            /\ closestIndex' = -1 => Smallest(dist) > 12
            /\ Smallest(dist) = 12 =>
                  \E i \in PhotoIndices :
                     closestIndex' = i /\ dist[i] = 12]_vars

\* C14 (amended): the focus is cleared exactly when the minimum distance is
\* 12.0 or more; at exactly 12.0 no photo is hovered, below 12.0 the photo
\* at the minimum distance is.
C14_ClearedAtCutoff ==
    [][\A dist \in PhotoDistances(Distances, ActivePhotos(userTextures)) :
         (RenderWith(dist) /\ ActivePhotos(userTextures) > 0) =>
            /\ closestIndex' = -1 <=> Smallest(dist) >= 12
            /\ Smallest(dist) = 12 => closestIndex' = -1
            /\ minDistance' = Smallest(dist)]_vars

\* C14 witness: the nearest photo was at exactly 12.0 in the last frame and
\* no photo has the focus
C14_Witness ==
    /\ userTextures > 0
    /\ minDistance = 12
    /\ closestIndex = -1

\* C15: at most one photo is hovered, at most one is selected, and a photo
\* is selected only if it is the hovered one and the GestureState has
\* isPinching.
C15_OneHoveredOneSelected ==
    /\ Cardinality({i \in PhotoIndices : IsHovered(i)}) <= 1
    /\ Cardinality({i \in PhotoIndices : IsSelected(i)}) <= 1
    /\ \A i \in PhotoIndices :
          IsSelected(i) => (IsHovered(i) /\ handData.isPinching)

\* C15 witness: of two photos one is hovered and, under a stable pinch,
\* selected
C15_Witness ==
    /\ userTextures = 2
    /\ handData.isPinching
    /\ \E i \in PhotoIndices : IsSelected(i)

----------------------------------------------------------------------------
\* Start, failure and teardown of the hand tracker

\* fist and open hand, the wrist at the centre of the image
CameraFrames ==
    FramesAt({ <<10, 13, 13, 13, 13, 12>>, <<10, 18, 18, 18, 18, 12>> },
             {<<WristCentre, WristCentre>>})

CameraHandTick == \E f \in CameraFrames : PredictHand(f)
CameraLoadedData == LoadedData(CameraFrames)

NextCamera ==
    \/ ModelLoaded
    \/ ModelFailed
    \/ StartExperience
    \/ TryAgain
    \/ CloseOverlay
    \/ OpenOverlay
    \/ CameraGranted
    \/ CameraDenied
    \/ CameraLoadedData
    \/ CameraHandTick
    \/ PredictSkip
    \/ Teardown

SpecCamera == Init /\ [][NextCamera]_vars

\* C16 (as claimed): once the hand tracker is unmounted no prediction loop
\* has a callback scheduled, whatever the order of start attempts,
\* loadeddata events, prediction ticks and the unmount was.
C16_NoLoopAfterTeardown == ~mounted => loops = {}

\* The user and the outside world cooperate: the buttons that are offered
\* get clicked, the camera is granted, the video loads, frames show a hand;
\* nothing is denied, closed or unmounted
NextRetry ==
    \/ ModelLoaded
    \/ ModelFailed
    \/ StartExperience
    \/ TryAgain
    \/ CameraGranted
    \/ CameraLoadedData
    \/ CameraHandTick
    \/ PredictSkip

\* requestAnimationFrame runs every scheduled callback, so a loop that can
\* process a frame does so in the end; the other steps are the cooperation
\* the claim asks for
SpecRetry ==
    /\ Init
    /\ [][NextRetry]_vars
    /\ WF_vars(ModelLoaded \/ ModelFailed)
    /\ WF_vars(TryAgain)
    /\ WF_vars(CameraGranted)
    /\ WF_vars(CameraLoadedData)
    /\ WF_vars(CameraHandTick)

\* C17 (as claimed): after the model failed to load (error set, no
\* landmarker), Try Again and successful external responses lead to a state
\* in which a frame has been classified and its GestureState emitted.
C17_RetryReachesTracking ==
    (handLandmarker = "failed") ~> handData.hasHand

\* C18 (as claimed): a failed model load and a denied camera set the error;
\* a set error is cleared only by a start attempt; and while the model is
\* unavailable after a failed load the error is not cleared.
C18_ErrorStaysVisible ==
    [][/\ ModelFailed => error' = "model"
       /\ (CameraDenied /\ mounted) => error' = "camera"
       /\ (error # "none" /\ error' = "none") => starts' = starts + 1
       /\ handLandmarker' = "failed" => error' # "none"]_vars

----------------------------------------------------------------------------
\* Frames that make the tick throw

\* every point at which a tick can throw, at every frame of CameraFrames
FaultTick == \E point \in ThrowPoints : \E f \in CameraFrames : PredictThrow(point, f)

NextFault ==
    \/ CameraHandTick
    \/ PredictNoHand
    \/ FaultTick

SpecFault == Started /\ [][NextFault]_vars

\* C19: an exception thrown while a frame is processed (in the detection,
\* in the classification and stabilization, or in onHandUpdate) stays inside
\* the tick: the loop is still there afterwards and has scheduled its next
\* callback.
C19_ThrowKeepsLoop ==
    [][FaultTick =>
         /\ loops' = loops
         /\ requestRef' \in loops'
         /\ UNCHANGED cameraVars]_vars

\* C19 witness: onHandUpdate threw after the refs were updated (the stored
\* GestureState is not the last valid one), or the landmarks threw after the
\* grace reset; the loop runs on
C19_Witness ==
    /\ lastValidHandData.hasHand
    /\ missingHandFrames = 0
    /\ handData # lastValidHandData
    /\ loops = {1} /\ requestRef = 1

\* C20 (as claimed): a tick that throws leaves the persistence counters,
\* the last stable state, the smoothed pointer and pinch, the missing-frame
\* counter and the last valid GestureState as they were.
C20_ThrowChangesNothing ==
    [][FaultTick => UNCHANGED trackerVars]_vars

----------------------------------------------------------------------------
\* The rate limit of the prediction loop

NextRate ==
    \/ CameraHandTick
    \/ PredictNoHand
    \/ PredictSkip

SpecRate == Started /\ [][NextRate]_vars

\* a prediction callback dt ms after the one before it
CallbackAt(dt) ==
    \/ \E f \in CameraFrames : PredictHandAt(f, dt)
    \/ PredictNoHandAt(dt)
    \/ PredictSkipAt(dt)

\* C21: a callback that runs less than 30 ms after the last processed one
\* detects nothing, emits nothing and changes no stabilizer state, it only
\* schedules the next callback; a callback that changes the stabilizer or
\* emits runs at least 30 ms after the last processed one, and becomes the
\* last processed one.
C21_RateLimited ==
    [][\A dt \in Delays :
         CallbackAt(dt) =>
           /\ sinceProcess + dt < RATE_LIMIT =>
                 /\ UNCHANGED <<trackerVars, appVars, loops>>
                 /\ requestRef' \in loops
                 /\ sinceProcess' = sinceProcess + dt
           /\ <<trackerVars, appVars>>' # <<trackerVars, appVars>> =>
                 /\ sinceProcess + dt >= RATE_LIMIT
                 /\ sinceProcess' = 0]_vars

\* C21 witness: a hand has been processed, callbacks 10 ms and 16 ms later
\* were turned away, and the hand is still the emitted one
C21_Witness ==
    /\ sinceProcess = 26
    /\ handData.hasHand
    /\ missingHandFrames = 0
    /\ fistFrames = 1

----------------------------------------------------------------------------
\* Smoothing under a constant input

\* one relaxed hand held still (raw NEUTRAL: the middle finger is not
\* extended): the raw pointer is 40 units right of the centre and level with
\* it, thumb and index are 0.4 palm scales apart
HeldFrame == MakeFrame(10, 16, 15, 16, 16, 4, WristCentre - 40, WristCentre)

SmoothHandTick == PredictHand(HeldFrame)

NextSmooth ==
    \/ SmoothHandTick
    \/ PredictSkip
    \/ RenderTick

\* the loop keeps running and the camera keeps delivering frames
SpecSmooth == Started /\ [][NextSmooth]_vars /\ WF_vars(SmoothHandTick)

\* the raw values of the held frame and what is left to them
HeldRaw == [x |-> RawX(HeldFrame), y |-> RawY(HeldFrame),
            pinch |-> TargetPinch(HeldFrame)]
Channels == {"x", "y", "pinch"}
Gap(c) == HeldRaw[c] - smoothed[c]

----------------------------------------------------------------------------
\* The tracker alone: every hand shape, frames without a hand

NextTracker ==
    \/ HandTick
    \/ PredictNoHand

SpecTracker == Started /\ [][NextTracker]_vars

\* C23: the pinch amount of the emitted GestureState, and of the one kept
\* for the grace period, lies in [0, 1], whatever landmark frames (the
\* degenerate palm among them) and no-hand ticks came before.
C23_PinchInUnitRange ==
    /\ handData.pinchDistance \in 0..PinchOne
    /\ lastValidHandData.pinchDistance \in 0..PinchOne
    /\ smoothed.pinch \in 0..PinchOne

\* C23 witness: the pinch amount has come down to half, the hand has gone
\* and the grace period emits the amount again
C23_Witness ==
    /\ handData.hasHand
    /\ handData.pinchDistance * 2 = PinchOne
    /\ missingHandFrames > 0

----------------------------------------------------------------------------
\* Degenerate geometry

\* the three gestures and the degenerate palm (every landmark on one point),
\* the wrist at the centre of the image
DegenerateFrames ==
    FramesAt({ <<10, 13, 13, 13, 13, 12>>, <<10, 18, 18, 18, 18, 12>>,
               <<10, 15, 18, 13, 13, 4>>, <<0, 0, 0, 0, 0, 0>> },
             {<<WristCentre, WristCentre>>})

DegenerateHandTick == \E f \in DegenerateFrames : PredictHand(f)

NextDegenerate ==
    \/ DegenerateHandTick
    \/ PredictNoHand

SpecDegenerate == Started /\ [][NextDegenerate]_vars

\* C24: a processed frame that holds a hand whose palm scale is not
\* positive is classified as raw NEUTRAL and the tick completes: the three
\* persistence counters are 0 afterwards, the stable state is NEUTRAL, the
\* emitted GestureState has hasHand and none of isOpen, isClosed and
\* isPinching, and the loop has scheduled its next callback.
C24_DegenerateIsNeutral ==
    [][\A f \in DegenerateFrames :
         (f.palmScale <= 0 /\ PredictHand(f)) =>
           /\ RawGesture(f) = "NEUTRAL"
           /\ fistFrames' = 0 /\ pinchFrames' = 0 /\ openFrames' = 0
           /\ lastState' = "NEUTRAL"
           /\ handData'.hasHand
           /\ ~handData'.isOpen /\ ~handData'.isClosed /\ ~handData'.isPinching
           /\ handStatus' = "Relaxed"
           /\ missingHandFrames' = 0
           /\ loops' = loops /\ requestRef' \in loops]_vars

\* C24 witness: a degenerate frame has come right after a run of pinch
\* frames (the smoothed pinch amount is on its way back up): no counter is
\* left and no flag is emitted
C24_Witness ==
    /\ handData.hasHand
    /\ missingHandFrames = 0
    /\ fistFrames = 0 /\ pinchFrames = 0 /\ openFrames = 0
    /\ smoothed.pinch = 7
    /\ ~handData.isPinching
    /\ handStatus = "Relaxed"

----------------------------------------------------------------------------
\* The decision order of the classifier

\* Fingertip distances in tenths of the palm scale: folded (13) or
\* extended (18), the middle finger also in between, below (15) and above
\* (16) its own limit of 1.5; thumb and index 0.4 or 1.2 palm scales apart.
\* Every count of folded and of extended fingertips occurs, with and
\* without an extended middle finger, on either side of the pinch limit
ClassifyShapes ==
    { <<10, t8, t12, t16, t20, pd>> :
        t8 \in {13, 18}, t12 \in {13, 15, 16, 18}, t16 \in {13, 18},
        t20 \in {13, 18}, pd \in {4, 12} }

ClassifyFrames == FramesAt(ClassifyShapes, {<<WristCentre, WristCentre>>})

ClassifyHandTick == \E f \in ClassifyFrames : PredictHand(f)

NextClassify == ClassifyHandTick

SpecClassify == Started /\ [][NextClassify]_vars

\* the category the decision order gives a frame
Decided(f) ==
    CASE FoldedCount(f) >= 3 -> "FIST"
      [] FoldedCount(f) < 3 /\ ExtendedCount(f) >= 3 -> "OPEN"
      [] FoldedCount(f) < 3 /\ ExtendedCount(f) < 3
           /\ NormPinchBelowHalf(f) /\ IsMiddleExtended(f) -> "PINCH"
      [] OTHER -> "NEUTRAL"

\* C25: a processed frame with a hand counts as FIST if at least three
\* fingertips are folded, else as OPEN if at least three are extended, else
\* as PINCH if the normalised pinch distance is below 0.5 and the middle
\* finger is extended, else as NEUTRAL: the counter of that category, and
\* no other counter, is nonzero after the tick.
C25_DecisionOrder ==
    [][\A f \in ClassifyFrames :
         PredictHand(f) =>
           /\ RawGesture(f) = Decided(f)
           /\ (fistFrames' > 0) = (Decided(f) = "FIST")
           /\ (openFrames' > 0) = (Decided(f) = "OPEN")
           /\ (pinchFrames' > 0) = (Decided(f) = "PINCH")
           /\ Decided(f) = "FIST" => fistFrames' = fistFrames + 1
           /\ Decided(f) = "OPEN" => openFrames' = openFrames + 1
           /\ Decided(f) = "PINCH" => pinchFrames' = pinchFrames + 1]_vars

\* C25 witness: the first frame showed thumb and index 0.4 palm scales apart
\* (the smoothed pinch amount has dropped to 0.8) and counted as a fist: the
\* folded fingertips were asked before the pinch
C25_Witness ==
    /\ fistFrames = 1
    /\ pinchFrames = 0 /\ openFrames = 0
    /\ smoothed.pinch = 8
    /\ handData.hasHand
    /\ lastState = "NEUTRAL"

----------------------------------------------------------------------------
\* Persistence across frames without a hand

\* C26 (as claimed): a gesture is newly emitted only after its raw gesture
\* has held on more than 3 consecutive processed ticks with no no-hand tick
\* among them; the counters do not carry over a run of no-hand ticks.  So
\* the first frame with a hand after a no-hand tick does not switch the
\* stable state to a gesture.
C26_FreshRunAfterNoHand ==
    [][(missingHandFrames > 0 /\ missingHandFrames' = 0) =>
         (lastState' \in Gestures => lastState' = lastState)]_vars

\* C27: at most one of the fist, pinch and open counters is nonzero, and
\* none is negative, in every state of the stabilizer.
C27_CountersExclusive ==
    /\ fistFrames >= 0 /\ pinchFrames >= 0 /\ openFrames >= 0
    /\ Cardinality({c \in {"fist", "pinch", "open"} :
           [fist |-> fistFrames, pinch |-> pinchFrames,
            open |-> openFrames][c] # 0}) <= 1

\* C27 witness: a pinch counted four frames and then a fist counted two;
\* only the fist counter is left
C27_Witness ==
    /\ fistFrames = 2
    /\ pinchFrames = 0 /\ openFrames = 0
    /\ lastState = "PINCH"
    /\ handData.isPinching

----------------------------------------------------------------------------
\* The hand comes back after a gap

\* the last rendered frame had no hand, an earlier one had one away from the
\* origin, and the hand is there again
BackAfterGap ==
    /\ handData.hasHand
    /\ ~wasTracking
    /\ prevHandPos # [x |-> 0, y |-> 0]

\* C28: the first rendered frame with a hand after rendered frames without
\* one takes the pointer of this frame as the remembered one before the
\* delta is computed: yaw stays as it was, pitch and roll change by the
\* auto-level of the compact mode only, whatever the emitted gesture and
\* however far the pointer is from the one remembered before the gap.
C28_NoTurnAfterGap ==
    [][(RenderTick /\ BackAfterGap) =>
         /\ containerRotation'.y = containerRotation.y
         /\ isExploded' => containerRotation' = containerRotation
         /\ ~isExploded' =>
               /\ containerRotation'.x = RoundDiv(95 * containerRotation.x, 100)
               /\ containerRotation'.z = RoundDiv(95 * containerRotation.z, 100)
         /\ prevHandPos'.x = handData.palmPosition.x
         /\ prevHandPos'.y = handData.palmPosition.y
         /\ wasTracking']_vars

\* C28 witness: the hand is back as a fist, the pointer is more than the
\* deadzone away from the one remembered before the gap, and the next
\* rendered frame is the first one to see it
C28_Witness ==
    /\ BackAfterGap
    /\ handData.isClosed
    /\ Abs(handData.palmPosition.x - prevHandPos.x) > DEADZONE
    /\ Abs(handData.palmPosition.y - prevHandPos.y) > DEADZONE
    /\ ENABLED RenderTick

----------------------------------------------------------------------------
\* Which gesture turns which axis

\* fist, open hand, pinch and relaxed hand, thumb on index in all four; the
\* wrist at the centre of the image, or 4 pointer units left of it and 4
\* above
TurnFrames ==
    FramesAt({ <<10, 13, 13, 13, 13, 4>>, <<10, 18, 18, 18, 18, 4>>,
               <<10, 15, 18, 13, 13, 4>>, <<10, 16, 15, 16, 16, 4>> },
             {<<WristCentre, WristCentre>>, <<WristCentre - 4, WristCentre - 4>>})

TurnHandTick == \E f \in TurnFrames : PredictHand(f)

NextTurn ==
    \/ TurnHandTick
    \/ RenderTick

SpecTurn == Started /\ [][NextTurn]_vars

\* pitch or roll after the auto-level of a frame that ends in compact mode
Levelled(angle) ==
    IF isExploded' THEN angle ELSE RoundDiv(95 * angle, 100)

----------------------------------------------------------------------------
\* Number of prediction loops

\* C30 (as claimed): at most one prediction loop has a callback scheduled,
\* whatever the order of the auto-start, the clicks on Start Experience and
\* Try Again, the getUserMedia completions and the loadeddata events.
C30_AtMostOneLoop == Cardinality(loops) <= 1

----------------------------------------------------------------------------
\* Camera streams after the teardown

\* C31 (as claimed): once the hand tracker is unmounted no camera stream it
\* acquired has running tracks, be it the source of the video element, a
\* stream a later start attempt replaced, or a stream granted after the
\* unmount.
C31_StreamsStopped == ~mounted => liveStreams = 0

----------------------------------------------------------------------------
\* Rendered frames between two emissions

NextInterleave ==
    \/ LevelHandTick
    \/ PredictSkip
    \/ RenderTick

SpecInterleave == Started /\ [][NextInterleave]_vars

\* the remembered pointer is the emitted one
Anchored ==
    /\ handData.hasHand /\ wasTracking
    /\ prevHandPos.x = handData.palmPosition.x
    /\ prevHandPos.y = handData.palmPosition.y

\* C32: a rendered frame with a hand remembers the emitted pointer; as long
\* as no other GestureState is emitted the remembered pointer stays the
\* emitted one, whatever prediction callbacks run in between; and a
\* rendered frame that finds it so computes a delta of zero: yaw stays as it
\* was and pitch and roll change by the auto-level only.  So a displacement
\* of the pointer turns the field on one rendered frame at most.
C32_OneTurnPerDisplacement ==
    [][/\ (RenderTick /\ handData.hasHand) => Anchored'
       /\ (handData' = handData /\ Anchored) => Anchored'
       /\ (RenderTick /\ Anchored) =>
             /\ containerRotation'.y = containerRotation.y
             /\ containerRotation'.x = Levelled(containerRotation.x)
             /\ containerRotation'.z = Levelled(containerRotation.z)]_vars

\* C32 witness: an open hand has turned the field about both axes, the
\* frame has been rendered, a prediction callback has been turned away by
\* the rate limit and nothing has been emitted since
C32_Witness ==
    /\ Anchored
    /\ handData.isOpen /\ isExploded
    /\ containerRotation.x # 0 /\ containerRotation.y # 0
    /\ sinceProcess > 0
    /\ ENABLED RenderTick

----------------------------------------------------------------------------
\* Flags and hasHand

\* the shape mode a frame would end in if the flags were read without
\* asking for hasHand
UngatedShapeMode(hd, exploded) ==
    IF hd.isClosed THEN FALSE ELSE IF hd.isOpen THEN TRUE ELSE exploded

\* C33: the emitted GestureState, and the one kept for the grace period,
\* have hasHand whenever one of isOpen, isClosed and isPinching is set; so
\* the shape mode computed behind the hasHand test is the one the flags
\* alone would give.
C33_FlagsImplyHand ==
    /\ \A d \in {handData, lastValidHandData} :
          (d.isOpen \/ d.isClosed \/ d.isPinching) => d.hasHand
    /\ \A e \in BOOLEAN :
          ShapeMode(handData, e) = UngatedShapeMode(handData, e)

\* C33 witness: the hand is gone, the grace period emits the open hand
\* again, and a rendered frame has expanded the field on it
C33_Witness ==
    /\ handData.isOpen /\ handData.hasHand
    /\ missingHandFrames > 0
    /\ isExploded /\ wasTracking

----------------------------------------------------------------------------
\* Roll

\* C34: the roll angle of the shared orientation is 0 in every state; no
\* gesture, pointer movement or auto-level step makes it nonzero.
C34_RollIsZero == containerRotation.z = 0

\* C34 witness: an open hand has turned the field about pitch and yaw, a
\* fist has made it compact again and the auto-level is at work
C34_Witness ==
    /\ containerRotation.z = 0
    /\ containerRotation.x > 8 /\ containerRotation.y # 0
    /\ ~isExploded /\ handData.isClosed /\ wasTracking

----------------------------------------------------------------------------
\* Callbacks that process no frame

\* C35: a prediction callback that processes no frame emits nothing and
\* leaves the persistence counters, the stable state, the smoothed values,
\* the missing-frame counter and the stored GestureState as they were; it
\* only schedules the next callback.  The missing-frame counter goes up
\* only on a processed frame without a hand, by one, and the emitted hand
\* is withdrawn only when that counter reaches the grace limit.
C35_SkipCountsNothing ==
    [][/\ PredictSkip =>
             /\ UNCHANGED <<trackerVars, appVars, sceneVars, cameraVars>>
             /\ loops' = loops /\ requestRef' \in loops
       /\ missingHandFrames' > missingHandFrames =>
             /\ missingHandFrames' = missingHandFrames + 1
             /\ PredictNoHand
             /\ sinceProcess' = 0
       /\ (handData.hasHand /\ ~handData'.hasHand) =>
             missingHandFrames' = GRACE_LIMIT]_vars

\* C35 witness: 39 frames without a hand have been processed, two callbacks
\* after the last of them were turned away, and the hand is still emitted
C35_Witness ==
    /\ missingHandFrames = GRACE_LIMIT - 1
    /\ sinceProcess = 26
    /\ handData.hasHand
    /\ handData.isClosed

----------------------------------------------------------------------------
\* Photo uploads

\* numbers of files selected at once: one, two, one more than is loaded
UploadSelections == {1, 2, MaxUploadFiles + 1}

UploadStart == \E n \in UploadSelections : HandleFileUpload(n)

NextUpload ==
    \/ UploadStart
    \/ TextureLoaded
    \/ TextureFailed

\* the browser finishes every load it was asked for, with the image or
\* with an error
SpecUpload ==
    /\ Started
    /\ [][NextUpload]_vars
    /\ WF_vars(TextureLoaded \/ TextureFailed)

\* C36 (as claimed): an upload that has set the processing flag eventually
\* clears it, whether the selected images load or fail to load, and never
\* more than 10 textures are installed.
C36_UploadEnds ==
    /\ isProcessing ~> ~isProcessing
    /\ [](userTextures <= MaxUploadFiles)

====
